---- MODULE Spec2Model ----
(***************************************************************************)
(* Model of populate_db.py: the seeding run of the port-logistics store.   *)
(*                                                                         *)
(* The store is PostgreSQL reached through psycopg2 with autocommit off:   *)
(* `pending` is what the run's session sees inside its transaction,        *)
(* `committed` is what every other session sees.  A statement that fails   *)
(* inside a transaction aborts it: every later statement of the same       *)
(* transaction raises InFailedSqlTransaction (a psycopg2.Error) until the  *)
(* transaction is rolled back.  Sequences (serial ids) are not             *)
(* transactional.                                                          *)
(*                                                                         *)
(* Text is a sequence of tokens: a token is a run of word characters, a    *)
(* single punctuation character or a single blank.                         *)
(***************************************************************************)
EXTENDS Integers, Sequences, FiniteSets, TLC

VARIABLES
    pc,             \* position of main()
    conn,           \* "none" | "open" | "closed"
    closes,         \* number of conn.close() calls
    committed,      \* table -> rows visible to other sessions
    pending,        \* table -> rows as seen inside the run's transaction
    seqv,           \* table -> last value of its serial sequence
    role,           \* session_replication_role of the session
    roleCommitted,  \* its value at the last commit (SET is transactional)
    txAborted,      \* the current transaction has had a failed statement
    outcome,        \* "none" | "committed" | "rolledback"
    failedIn,       \* pc at which the exception reaching main() was raised
    ti,             \* truncate_tables: index into tables
    truncTried,     \* truncate_tables: tables a TRUNCATE was issued for
    truncFailed,    \* truncate_tables: tables whose TRUNCATE raised
    li,             \* populate_lookup_tables: index of the next insert
    lookupRuns,     \* completed invocations of populate_lookup_tables
    cat,            \* category being resolved: "companies" | "ports" | "none"
    content,        \* result of get_wikipedia_data
    requests,       \* category -> number of requests.get calls
    sleeps,         \* category -> number of time.sleep(30) calls
    firstResp,      \* category -> the first response of the resolve call
    companies,      \* main: companies
    ports,          \* main: ports
    client_ids,     \* main: client_ids
    vessel_ids,     \* main: vessel_ids
    shipment_ids,   \* main: shipment_ids
    container_count,\* main: container_count
    status_ids,     \* name -> id mapping read back by the current stage
    i,              \* loop index of the current stage
    left,           \* inner loop: rows still to insert for the current owner
    rng,            \* state of the seeded random source `fake`
    cn,             \* generate_container_number: [owner, serial, result]
    phaseLog,       \* phases of the run entered so far, in order
    opsAfterClose,  \* store operations issued on the closed connection
    opsIssued,      \* statements, commits and rollbacks issued to the store
    initial,        \* the committed store when the run started
    stageLog,       \* steps of main() entered so far, in order
    failKind        \* "none" | "store" (psycopg2.Error) | "program" (ValueError)

vars == <<pc, conn, closes, committed, pending, seqv, role, roleCommitted,
          txAborted, outcome, failedIn, ti, truncTried, truncFailed, li, lookupRuns,
          cat,
          content, requests, sleeps, firstResp, companies, ports, client_ids,
          vessel_ids, shipment_ids, container_count, status_ids, i, left, rng,
          cn, phaseLog, opsAfterClose, opsIssued, initial, stageLog, failKind>>

(***************************************************************************)
(* Bounds                                                                  *)
(***************************************************************************)
MaxSeed == 3          \* seeds of the random source: 0..MaxSeed
MaxSerialIdx == 5     \* serial numbers tried by the container-number check
MaxLookupRuns == 2    \* consecutive invocations of populate_lookup_tables

(***************************************************************************)
(* Program constants                                                       *)
(***************************************************************************)
CompanyCap == 15
VesselsPerClient == 3
BerthCount == 20
MinShipments == 2
MaxShipments == 5
MinContainers == 1
MaxContainers == 4
RateLimited == 429

Tables == <<"container", "shipment", "berth", "client", "vessel",
            "BerthStatus", "ContainerType", "ShipmentStatus">>

EntityTables == {"client", "vessel", "berth", "shipment", "container"}

LookupTables == {"ShipmentStatus", "ContainerType", "BerthStatus"}

\* the tables of the schema the run touches
TableSet == EntityTables \cup LookupTables

statuses == <<"PENDING", "IN_TRANSIT", "AWAITING_CUSTOMS", "CLEARED", "DELIVERED">>

container_types == <<"DRY", "REEFER", "OPEN_TOP", "FLAT_RACK">>

berth_statuses == <<"AVAILABLE", "OCCUPIED", "MAINTENANCE">>

status_options == <<"PENDING", "IN_TRANSIT", "AWAITING_CUSTOMS", "CLEARED">>

sizes == <<20, 40>>

\* The 12 lookup inserts of populate_lookup_tables, in program order.
LookupInserts ==
    [k \in 1..Len(statuses) |-> [table |-> "ShipmentStatus", name |-> statuses[k]]]
    \o [k \in 1..Len(container_types) |-> [table |-> "ContainerType", name |-> container_types[k]]]
    \o [k \in 1..Len(berth_statuses) |-> [table |-> "BerthStatus", name |-> berth_statuses[k]]]

FallbackCompanies ==
    << <<"Maersk">>, <<"Mediterranean", " ", "Shipping", " ", "Company">>,
       <<"CMA", " ", "CGM">>, <<"COSCO", " ", "Shipping">>, <<"Hapag-Lloyd">>,
       <<"Ocean", " ", "Network", " ", "Express">> >>

FallbackPorts ==
    << <<"Shanghai">>, <<"Singapore">>, <<"Ningbo-Zhoushan">>, <<"Shenzhen">>,
       <<"Guangzhou">> >>

SeqToSet(s) == {s[k] : k \in 1..Len(s)}

Min(a, b) == IF a <= b THEN a ELSE b

RECURSIVE Pow2(_)
Pow2(n) == IF n = 0 THEN 1 ELSE 2 * Pow2(n - 1)

(***************************************************************************)
(* The random source: fake = Faker(); Faker.seed(42).  A seeded generator  *)
(* is a deterministic sequence; the seed is drawn in Init.                 *)
(***************************************************************************)
NextRng(r) == (r * 13 + 7) % 256

\* fake.random_int(min=lo, max=hi): lo <= result <= hi
random_int(r, lo, hi) == lo + ((r \div 4) % (hi - lo + 1))

\* fake.random_element(elements)
random_element(r, elements) == elements[random_int(r, 1, Len(elements))]

\* fake.random_elements(elements, unique=True, length=2) is
\* random.sample(elements, 2): two different POSITIONS of the list.
\* With fewer than 2 elements it raises ValueError.
SampleRaises(elements) == Len(elements) < 2

random_elements(r, elements) ==
    LET a == random_int(r, 1, Len(elements))
        b0 == random_int(NextRng(r), 1, Len(elements) - 1)
        b == IF b0 >= a THEN b0 + 1 ELSE b0
    IN << elements[a], elements[b] >>

\* fake.random_uppercase_letter()
Alphabet == <<"A", "B", "C", "D", "E", "F", "G", "H", "I", "J", "K", "L", "M",
              "N", "O", "P", "Q", "R", "S", "T", "U", "V", "W", "X", "Y", "Z">>

DigitChars == <<"0", "1", "2", "3", "4", "5", "6", "7", "8", "9">>

random_uppercase_letter(r) == Alphabet[1 + (r % Len(Alphabet))]

\* fake.random_number(digits=6, fix_len=True): 100000..999999
random_number6(r) == 100000 + ((r * 3517) % 900000)

(***************************************************************************)
(* generate_container_number                                               *)
(***************************************************************************)
IndexOf(s, x) == CHOOSE k \in 1..Len(s) : s[k] = x

\* ord(char) for the characters a container number is made of
ord(char) ==
    IF char \in SeqToSet(Alphabet) THEN 64 + IndexOf(Alphabet, char)
    ELSE 47 + IndexOf(DigitChars, char)

\* str(n) for n >= 0
RECURSIVE str(_)
str(n) ==
    IF n < 10 THEN << DigitChars[n + 1] >>
    ELSE str(n \div 10) \o << DigitChars[(n % 10) + 1] >>

\* Mutant: weight 2*i instead of 2**i.
CharValueLinear(char, idx) ==
    LET num == ord(char)
        v == IF 65 <= num /\ num <= 90 THEN num - 55
             ELSE IF 48 <= num /\ num <= 57 THEN num - 48 ELSE num
    IN v * (2 * idx)

\* one element of char_values: the loop body of lines 112-118
CharValue(char, idx) ==
    LET num == ord(char)
        v == IF 65 <= num /\ num <= 90 THEN num - 55
             ELSE IF 48 <= num /\ num <= 57 THEN num - 48 ELSE num
    IN v * Pow2(idx)

RECURSIVE SumValues(_, _)
SumValues(base, k) ==
    IF k = 0 THEN 0 ELSE SumValues(base, k - 1) + CharValue(base[k], k - 1)

generate_container_number(owner_code, serial_number) ==
    LET product_group == "U"
        base == owner_code \o << product_group >> \o str(serial_number)
        total == SumValues(base, Len(base))
        check_digit == (total % 11) % 10
    IN base \o str(check_digit)

(***************************************************************************)
(* Text cleaning of scraped cells (re.sub, split, strip)                   *)
(***************************************************************************)
\* tokens that are not runs of word characters (\w)
NonWordTokens == {"[", "]", "(", ")", " ", "-", "Hapag-Lloyd", "Ningbo-Zhoushan"}

\* tokens that are runs of decimal digits (\d)
DigitTokens == {"1", "2", "12"}

\* does the token match \d+ (digitsOnly) or \w+ ?
Inner(tok, digitsOnly) ==
    IF digitsOnly THEN tok \in DigitTokens ELSE tok \notin NonWordTokens

RECURSIVE RunLen(_, _)
RunLen(s, digitsOnly) ==
    IF s = <<>> \/ ~Inner(Head(s), digitsOnly) THEN 0
    ELSE 1 + RunLen(Tail(s), digitsOnly)

\* re.sub(r'\[\d+\]', '', s) when digitsOnly, re.sub(r'\[\w+\]', '', s) otherwise
RECURSIVE re_sub(_, _)
re_sub(s, digitsOnly) ==
    IF s = <<>> THEN <<>>
    ELSE IF Head(s) = "["
         THEN LET k == RunLen(Tail(s), digitsOnly)
              IN IF k >= 1 /\ Len(s) >= k + 2 /\ s[k + 2] = "]"
                 THEN re_sub(SubSeq(s, k + 3, Len(s)), digitsOnly)
                 ELSE << Head(s) >> \o re_sub(Tail(s), digitsOnly)
         ELSE << Head(s) >> \o re_sub(Tail(s), digitsOnly)

\* s.split('(')[0]
RECURSIVE split_paren(_)
split_paren(s) ==
    IF s = <<>> \/ Head(s) = "(" THEN <<>>
    ELSE << Head(s) >> \o split_paren(Tail(s))

RECURSIVE lstrip(_)
lstrip(s) == IF s # <<>> /\ Head(s) = " " THEN lstrip(Tail(s)) ELSE s

RECURSIVE rstrip(_)
rstrip(s) ==
    IF s # <<>> /\ s[Len(s)] = " " THEN rstrip(SubSeq(s, 1, Len(s) - 1)) ELSE s

\* s.strip(), also get_text(strip=True) of a cell holding one text node
strip(s) == lstrip(rstrip(s))

\* lines 66-68: the cleaned company name of a cell
CleanCompany(cell) == strip(re_sub(strip(cell), TRUE))

\* lines 93-95: the cleaned port name of a cell
CleanPort(cell) == strip(split_paren(re_sub(strip(cell), FALSE)))

\* the loop over table.find_all('tr')[1:]: rows with at least minCols cells
\* contribute the cleaned text of their second cell
RECURSIVE ScrapeRows(_, _, _)
ScrapeRows(rows, minCols, isPorts) ==
    IF rows = <<>> THEN <<>>
    ELSE LET cols == Head(rows)
             rest == ScrapeRows(Tail(rows), minCols, isPorts)
         IN IF Len(cols) >= minCols
            THEN << IF isPorts THEN CleanPort(cols[2]) ELSE CleanCompany(cols[2]) >> \o rest
            ELSE rest

\* rows[1:]
Rest(s) == IF s = <<>> THEN <<>> ELSE Tail(s)

\* companies[:15]
Cap(s, n) == SubSeq(s, 1, Min(Len(s), n))

None == [kind |-> "none", tables |-> <<>>]

EmptyBody == [kind |-> "empty", tables |-> <<>>]

Html(tables) == [kind |-> "html", tables |-> tables]

\* `if content:` - None and b'' are falsy
Truthy(c) == c.kind = "html"

\* scrape_shipping_companies, after the fetch (lines 56-75)
ScrapeCompanies(c) ==
    IF Truthy(c)
    THEN IF c.tables # <<>>
         THEN Cap(ScrapeRows(Rest(c.tables[1]), 2, FALSE), CompanyCap)
         ELSE Cap(FallbackCompanies, CompanyCap)
    ELSE Cap(<<>>, CompanyCap)

\* scrape_container_ports, after the fetch (lines 82-101)
ScrapePorts(c) ==
    IF Truthy(c)
    THEN IF c.tables # <<>>
         THEN ScrapeRows(Rest(c.tables[1]), 3, TRUE)
         ELSE FallbackPorts
    ELSE <<>>

(***************************************************************************)
(* Pages the two URLs can answer with.  A table is its rows (tr), the      *)
(* first one the header; a row is the text of its td cells.                *)
(***************************************************************************)
Header == <<>>

CompanyNames ==
    <<"Maersk", "MSC", "CMA", "COSCO", "Hapag", "ONE", "Evergreen", "HMM",
      "Yang", "ZIM", "Wan", "PIL", "SITC", "KMTC", "IRISL", "UniFeeder">>

CompanyRow(k) == << <<"1">>, <<CompanyNames[k]>>, <<"12">> >>

CompanyTable(n) == << Header >> \o [k \in 1..n |-> CompanyRow(k)]

\* the same company listed in two rows, cells with citations and blanks
CompanyPageDup ==
    Html(<< << Header,
               << <<"1">>, <<"Maersk", "[", "1", "]">>, <<"12">> >>,
               << <<"2">> >>,
               << <<"2">>, <<" ", "MSC", "[", "a", "]", " ">>, <<"12">> >>,
               << <<"1">>, <<"Maersk">> >> >> >>)

CompanyPages ==
    { Html(<<>>), CompanyPageDup, Html(<< CompanyTable(7) >>),
      Html(<< CompanyTable(Len(CompanyNames)) >>) }

PortPageClean ==
    Html(<< << Header,
               << <<"1">>, <<"Shanghai">>, <<"China">> >>,
               << <<"2">>, <<"Singapore", "[", "a", "]">>, <<"Singapore">> >>,
               << <<"3">>, <<"Busan">> >>,
               << <<"3">>, <<" ", "Busan", " ", "(", "New", " ", "Port", ")">>, <<"Korea">> >> >> >>)

\* two rows whose cleaned names are equal
PortPageDup ==
    Html(<< << Header,
               << <<"1">>, <<"Shanghai", " ", "(", "Yangshan", ")">>, <<"China">> >>,
               << <<"2">>, <<"Shanghai", "[", "note", "]">>, <<"China">> >> >> >>)

PortPageOne ==
    Html(<< << Header, << <<"1">>, <<"Shanghai">>, <<"China">> >> >> >>)

PortPages == { Html(<<>>), PortPageClean, PortPageDup, PortPageOne }

Pages(c) == IF c = "companies" THEN CompanyPages ELSE PortPages

\* What requests.get can produce: an exception (status 0) or a response.
Responses(c) ==
    { [kind |-> "network", status |-> 0, page |-> None],
      [kind |-> "timeout", status |-> 0, page |-> None],
      [kind |-> "http_error", status |-> 404, page |-> None],
      [kind |-> "rate_limited", status |-> RateLimited, page |-> None],
      [kind |-> "ok", status |-> 200, page |-> EmptyBody] }
    \cup { [kind |-> "ok", status |-> 200, page |-> p] : p \in Pages(c) }

\* Mutant: raise_for_status raises for server errors only.
RaiseForStatusServerOnly(status) == 500 <= status /\ status < 600

\* response.raise_for_status(): HTTPError for every 4xx and 5xx status
RaiseForStatus(status) == 400 <= status /\ status < 600

(***************************************************************************)
(* The store                                                               *)
(***************************************************************************)
\* "no vessel": the NULL vessel reference (ids start at 1)
NoVessel == 0

LookupRows(names) == [k \in 1..Len(names) |-> [id |-> k, name |-> names[k]]]

EmptyStore == [t \in TableSet |-> <<>>]

\* a store left behind by an earlier run
PriorStore ==
    [t \in TableSet |->
        CASE t = "ShipmentStatus" -> LookupRows(statuses)
          [] t = "ContainerType" -> LookupRows(container_types)
          [] t = "BerthStatus" -> LookupRows(berth_statuses)
          [] t = "client" -> << [id |-> 1, company_name |-> <<"Maersk">>] >>
          [] t = "vessel" -> << [id |-> 1], [id |-> 2] >>
          [] t = "berth" ->
                << [id |-> 1, berth_number |-> <<"B", "0", "0", "1">>,
                    berth_status_id |-> 2, vessel_id |-> 1] >>
          [] t = "shipment" ->
                << [id |-> 1, client_id |-> 1, shipment_status_id |-> 1,
                    origin |-> <<"Shanghai">>, destination |-> <<"Singapore">>] >>
          [] t = "container" ->
                << [id |-> 1, shipment_id |-> 1, vessel_id |-> 1,
                    container_type_id |-> 1,
                    container_number |-> generate_container_number(<<"M", "S", "K">>, 123456),
                    size |-> 20] >>]

\* foreign keys of the schema: table -> the tables it references
References(t) ==
    CASE t = "shipment" -> {"client", "ShipmentStatus"}
      [] t = "container" -> {"shipment", "vessel", "ContainerType"}
      [] t = "berth" -> {"BerthStatus", "vessel"}
      [] OTHER -> {}

\* tables emptied by TRUNCATE TABLE t CASCADE: t and every table that
\* references an emptied table
RECURSIVE CascadeFrom(_)
CascadeFrom(ts) ==
    LET more == {u \in TableSet : References(u) \cap ts # {}}
    IN IF more \subseteq ts THEN ts ELSE CascadeFrom(ts \cup more)

Truncate(db, t) == [u \in TableSet |-> IF u \in CascadeFrom({t}) THEN <<>> ELSE db[u]]

\* the lookup name columns carry a unique constraint
NameIsUnique == TRUE

HasName(rows, name) == \E k \in 1..Len(rows) : rows[k].name = name

\* Mutant: a plain INSERT, without ON CONFLICT DO NOTHING.
InsertLookupPlain(rows, id, name) == Append(rows, [id |-> id, name |-> name])

\* INSERT INTO <lookup> (name) VALUES (%s) ON CONFLICT DO NOTHING
InsertLookup(rows, id, name) ==
    IF NameIsUnique /\ HasName(rows, name) THEN rows
    ELSE Append(rows, [id |-> id, name |-> name])

\* {row[0]: row[1] for row in cursor.fetchall()}: a later row wins
ReadIds(rows) ==
    [n \in {rows[k].name : k \in 1..Len(rows)} |->
        rows[CHOOSE k \in 1..Len(rows) :
                /\ rows[k].name = n
                /\ \A m \in (k + 1)..Len(rows) : rows[m].name # n].id]

\* f"B{i:03d}"
BerthNumber(n) ==
    << "B" >> \o (IF n < 10 THEN << "0", "0" >> ELSE IF n < 100 THEN << "0" >> ELSE <<>>)
    \o str(n)

(***************************************************************************)
(* Initial states                                                          *)
(***************************************************************************)
Categories == {"companies", "ports"}

NoResponse == [kind |-> "none", status |-> 0, page |-> None]

NoCn == [owner |-> <<>>, serial |-> 0, result |-> <<>>]

\* everything but the store, the seed and the position
InitLocals ==
    /\ conn = "none" /\ closes = 0 /\ opsAfterClose = 0
    /\ role = "origin" /\ roleCommitted = "origin" /\ txAborted = FALSE
    /\ outcome = "none" /\ failedIn = "none"
    /\ ti = 1 /\ truncTried = {} /\ truncFailed = {}
    /\ li = 1 /\ lookupRuns = 0
    /\ cat = "none" /\ content = None
    /\ requests = [c \in Categories |-> 0]
    /\ sleeps = [c \in Categories |-> 0]
    /\ firstResp = [c \in Categories |-> NoResponse]
    /\ companies = <<>> /\ ports = <<>> /\ client_ids = <<>>
    /\ vessel_ids = <<>> /\ shipment_ids = <<>> /\ container_count = 0
    /\ status_ids = << >> /\ i = 1 /\ left = 0
    /\ phaseLog = << "Idle" >>
    /\ opsIssued = 0 /\ stageLog = <<>> /\ failKind = "none"

Init ==
    /\ InitLocals
    /\ pc = "start"
    /\ committed \in {EmptyStore, PriorStore}
    /\ pending = committed
    /\ initial = committed
    /\ seqv = [t \in TableSet |-> Len(committed[t])]
    /\ rng \in 0..MaxSeed
    /\ cn = NoCn

(***************************************************************************)
(* main() and the stages it calls                                          *)
(***************************************************************************)
\* a store statement is issued on the connection
StoreOp ==
    /\ opsAfterClose' = opsAfterClose + (IF conn = "closed" THEN 1 ELSE 0)
    /\ opsIssued' = opsIssued + 1

\* the step issues nothing to the store
NoStoreOp == opsAfterClose' = opsAfterClose /\ opsIssued' = opsIssued

\* an exception leaves the try block of main()
Raise(at) == pc' = "except" /\ failedIn' = at

\* positions at which a store statement can raise on its own
FalliblePcs ==
    {"set_replica", "set_origin", "commit_reset", "lookup", "commit_lookup",
     "clients", "vessels", "berths_select", "berths", "shipments_select",
     "shipments", "containers_select", "containers", "commit"}

\* the stage that runs after a lookup mapping was read back
StageOfSelect(p) ==
    CASE p = "berths_select" -> [table |-> "BerthStatus", next |-> "berths"]
      [] p = "shipments_select" -> [table |-> "ShipmentStatus", next |-> "shipments"]
      [] p = "containers_select" -> [table |-> "ContainerType", next |-> "containers"]

\* Mutant: OCCUPIED for i < len(vessel_ids).
berth_status_strict(k, vids) == IF k < Len(vids) THEN "OCCUPIED" ELSE "AVAILABLE"

\* line 219: status of berth k
berth_status(k, vids) == IF k <= Len(vids) THEN "OCCUPIED" ELSE "AVAILABLE"

\* line 220: vessel of berth k (vessel_ids[i-1], 0-based)
berth_vessel_id(k, vids) == IF k <= Len(vids) THEN vids[k] ELSE NoVessel

\* Mutant: random_int(min=1, max=5).
shipments_per_client_from_one(r) == random_int(r, 1, MaxShipments)

\* line 242: fake.random_int(min=2, max=5)
shipments_per_client(r) == random_int(r, MinShipments, MaxShipments)

\* line 277: fake.random_int(min=1, max=4)
containers_per_shipment(r) == random_int(r, MinContainers, MaxContainers)

\* Mutant: a position of vessel_ids instead of one of its elements.
assigned_vessel_position(r, vids) ==
    IF vids # <<>> THEN random_int(r, 1, Len(vids)) ELSE NoVessel

\* line 279: fake.random_element(elements=vessel_ids) if vessel_ids else None
assigned_vessel(r, vids) ==
    IF vids # <<>> THEN random_element(r, vids) ELSE NoVessel

\* Mutant: no finally clause, the connection is closed on success only.
AfterRollbackNoFinally == "done"

\* the finally clause runs after the except clause
AfterRollback == "finally"

\* Mutant: the role is set to 'replica' a second time after the loop.
OriginRoleReplica == "replica"

\* line 139: SET session_replication_role = 'origin'
OriginRole == "origin"

\* Mutant: main goes from populate_clients straight to populate_vessels.
AfterClientsSkipPorts == [pc |-> "vessels", cat |-> "none", stage |-> "Vessels"]

\* lines 324-326: what main does after populate_clients returned (step 4)
AfterClients == [pc |-> "fetch", cat |-> "ports", stage |-> "ResolvePorts"]

\* psycopg2.connect succeeds; main enters truncate_tables
Connect ==
    /\ pc = "start"
    /\ conn' = "open"
    /\ pc' = "set_replica"
    /\ phaseLog' = Append(phaseLog, "Truncating")
    /\ stageLog' = Append(stageLog, "Reset")
    /\ UNCHANGED << closes, committed, pending, seqv, role, roleCommitted,
                      txAborted, outcome, failedIn, ti, truncTried,
                      truncFailed, li, lookupRuns, cat, content, requests,
                      sleeps, firstResp, companies, ports, client_ids,
                      vessel_ids, shipment_ids, container_count, status_ids,
                      i, left, rng, cn, opsAfterClose, opsIssued, initial,
                      failKind >>

\* Mutant: the except clause of the connection logs and does not return.
ConnectFailsNoReturn ==
    /\ pc = "start"
    /\ pc' = "set_replica"
    /\ UNCHANGED << conn, closes, committed, pending, seqv, role,
                      roleCommitted, txAborted, outcome, failedIn, ti,
                      truncTried, truncFailed, li, lookupRuns, cat, content,
                      requests, sleeps, firstResp, companies, ports,
                      client_ids, vessel_ids, shipment_ids, container_count,
                      status_ids, i, left, rng, cn, phaseLog, opsAfterClose,
                      opsIssued, initial, stageLog, failKind >>

\* psycopg2.connect raises: main logs and returns
ConnectFails ==
    /\ pc = "start"
    /\ pc' = "done"
    /\ UNCHANGED << conn, closes, committed, pending, seqv, role,
                      roleCommitted, txAborted, outcome, failedIn, ti,
                      truncTried, truncFailed, li, lookupRuns, cat, content,
                      requests, sleeps, firstResp, companies, ports,
                      client_ids, vessel_ids, shipment_ids, container_count,
                      status_ids, i, left, rng, cn, phaseLog, opsAfterClose,
                      opsIssued, initial, stageLog, failKind >>

\* SET session_replication_role = 'replica'
SetReplica ==
    /\ pc = "set_replica"
    /\ StoreOp
    /\ role' = "replica"
    /\ ti' = 1
    /\ pc' = "truncate"
    /\ UNCHANGED << conn, closes, committed, pending, seqv, roleCommitted,
                      txAborted, outcome, failedIn, truncTried, truncFailed,
                      li, lookupRuns, cat, content, requests, sleeps,
                      firstResp, companies, ports, client_ids, vessel_ids,
                      shipment_ids, container_count, status_ids, i, left,
                      rng, cn, phaseLog, initial, stageLog, failKind >>

\* TRUNCATE TABLE t CASCADE succeeds
TruncateTable ==
    /\ pc = "truncate"
    /\ ~txAborted
    /\ StoreOp
    /\ pending' = Truncate(pending, Tables[ti])
    /\ truncTried' = truncTried \cup {Tables[ti]}
    /\ ti' = ti + 1
    /\ pc' = IF ti = Len(Tables) THEN "set_origin" ELSE "truncate"
    /\ UNCHANGED << conn, closes, committed, seqv, role, roleCommitted,
                      txAborted, outcome, failedIn, truncFailed, li,
                      lookupRuns, cat, content, requests, sleeps, firstResp,
                      companies, ports, client_ids, vessel_ids, shipment_ids,
                      container_count, status_ids, i, left, rng, cn,
                      phaseLog, initial, stageLog, failKind >>

\* TRUNCATE raises psycopg2.Error (on its own, or because the transaction is
\* aborted): caught and logged, the loop goes on
TruncateError ==
    /\ pc = "truncate"
    /\ StoreOp
    /\ txAborted' = TRUE
    /\ truncTried' = truncTried \cup {Tables[ti]}
    /\ truncFailed' = truncFailed \cup {Tables[ti]}
    /\ ti' = ti + 1
    /\ pc' = IF ti = Len(Tables) THEN "set_origin" ELSE "truncate"
    /\ UNCHANGED << conn, closes, committed, pending, seqv, role,
                      roleCommitted, outcome, failedIn, li, lookupRuns, cat,
                      content, requests, sleeps, firstResp, companies, ports,
                      client_ids, vessel_ids, shipment_ids, container_count,
                      status_ids, i, left, rng, cn, phaseLog, initial,
                      stageLog, failKind >>

\* SET session_replication_role = 'origin'; raises in an aborted transaction
SetOrigin ==
    /\ pc = "set_origin"
    /\ StoreOp
    /\ IF txAborted
       THEN /\ Raise(pc)
            /\ failKind' = "store"
            /\ role' = role
       ELSE /\ role' = OriginRole
            /\ pc' = "commit_reset"
            /\ failedIn' = failedIn
            /\ failKind' = failKind
    /\ UNCHANGED << conn, closes, committed, pending, seqv, roleCommitted,
                      txAborted, outcome, ti, truncTried, truncFailed, li,
                      lookupRuns, cat, content, requests, sleeps, firstResp,
                      companies, ports, client_ids, vessel_ids, shipment_ids,
                      container_count, status_ids, i, left, rng, cn,
                      phaseLog, initial, stageLog >>

\* Mutant: truncate_tables returns without db_conn.commit().
CommitResetMissing ==
    /\ pc = "commit_reset"
    /\ li' = 1
    /\ pc' = "lookup"
    /\ phaseLog' = Append(phaseLog, "SeedingLookup")
    /\ stageLog' = Append(stageLog, "Lookup")
    /\ UNCHANGED << conn, closes, committed, pending, seqv, role,
                      roleCommitted, txAborted, outcome, failedIn, ti,
                      truncTried, truncFailed, lookupRuns, cat, content,
                      requests, sleeps, firstResp, companies, ports,
                      client_ids, vessel_ids, shipment_ids, container_count,
                      status_ids, i, left, rng, cn, opsAfterClose, opsIssued,
                      initial, failKind >>

\* db_conn.commit() of truncate_tables; main enters populate_lookup_tables
CommitReset ==
    /\ pc = "commit_reset"
    /\ StoreOp
    /\ committed' = pending
    /\ roleCommitted' = role
    /\ li' = 1
    /\ pc' = "lookup"
    /\ phaseLog' = Append(phaseLog, "SeedingLookup")
    /\ stageLog' = Append(stageLog, "Lookup")
    /\ UNCHANGED << conn, closes, pending, seqv, role, txAborted, outcome,
                      failedIn, ti, truncTried, truncFailed, lookupRuns, cat,
                      content, requests, sleeps, firstResp, companies, ports,
                      client_ids, vessel_ids, shipment_ids, container_count,
                      status_ids, i, left, rng, cn, initial, failKind >>

\* one INSERT ... ON CONFLICT DO NOTHING of populate_lookup_tables
LookupInsert ==
    /\ pc = "lookup"
    /\ StoreOp
    /\ LET ins == LookupInserts[li]
       IN /\ seqv' = [seqv EXCEPT ![ins.table] = @ + 1]
          /\ pending' = [pending EXCEPT ![ins.table] =
                            InsertLookup(@, seqv[ins.table] + 1, ins.name)]
    /\ li' = li + 1
    /\ pc' = IF li = Len(LookupInserts) THEN "commit_lookup" ELSE "lookup"
    /\ UNCHANGED << conn, closes, committed, role, roleCommitted, txAborted,
                      outcome, failedIn, ti, truncTried, truncFailed,
                      lookupRuns, cat, content, requests, sleeps, firstResp,
                      companies, ports, client_ids, vessel_ids, shipment_ids,
                      container_count, status_ids, i, left, rng, cn,
                      phaseLog, initial, stageLog, failKind >>

\* Mutant: populate_lookup_tables returns without db_conn.commit().
CommitLookupMissing ==
    /\ pc = "commit_lookup"
    /\ lookupRuns' = lookupRuns + 1
    /\ cat' = "companies"
    /\ pc' = "fetch"
    /\ phaseLog' = Append(phaseLog, "SeedingEntities")
    /\ stageLog' = Append(stageLog, "ResolveCompanies")
    /\ UNCHANGED << conn, closes, committed, pending, seqv, role,
                      roleCommitted, txAborted, outcome, failedIn, ti,
                      truncTried, truncFailed, li, content, requests, sleeps,
                      firstResp, companies, ports, client_ids, vessel_ids,
                      shipment_ids, container_count, status_ids, i, left,
                      rng, cn, opsAfterClose, opsIssued, initial, failKind >>

\* db_conn.commit() of populate_lookup_tables; main goes on to step 3
CommitLookup ==
    /\ pc = "commit_lookup"
    /\ StoreOp
    /\ committed' = pending
    /\ roleCommitted' = role
    /\ lookupRuns' = lookupRuns + 1
    /\ cat' = "companies"
    /\ pc' = "fetch"
    /\ phaseLog' = Append(phaseLog, "SeedingEntities")
    /\ stageLog' = Append(stageLog, "ResolveCompanies")
    /\ UNCHANGED << conn, closes, pending, seqv, role, txAborted, outcome,
                      failedIn, ti, truncTried, truncFailed, li, content,
                      requests, sleeps, firstResp, companies, ports,
                      client_ids, vessel_ids, shipment_ids, container_count,
                      status_ids, i, left, rng, cn, initial, failKind >>

\* get_wikipedia_data(url): one requests.get and what follows it
GetWikipediaData ==
    /\ pc = "fetch"
    /\ \E resp \in Responses(cat) :
          /\ requests' = [requests EXCEPT ![cat] = @ + 1]
          /\ firstResp' = IF requests[cat] = 0
                          THEN [firstResp EXCEPT ![cat] = resp]
                          ELSE firstResp
          /\ IF resp.status = 0 \/ RaiseForStatus(resp.status)
             THEN \* except requests.RequestException: return None
                  /\ content' = None
                  /\ sleeps' = sleeps
                  /\ pc' = "parse"
             ELSE IF resp.status = RateLimited
             THEN \* time.sleep(30); return get_wikipedia_data(url)
                  /\ content' = content
                  /\ sleeps' = [sleeps EXCEPT ![cat] = @ + 1]
                  /\ pc' = "fetch"
             ELSE /\ content' = resp.page
                  /\ sleeps' = sleeps
                  /\ pc' = "parse"
    /\ UNCHANGED << conn, closes, committed, pending, seqv, role,
                      roleCommitted, txAborted, outcome, failedIn, ti,
                      truncTried, truncFailed, li, lookupRuns, cat,
                      companies, ports, client_ids, vessel_ids, shipment_ids,
                      container_count, status_ids, i, left, rng, cn,
                      phaseLog, opsAfterClose, opsIssued, initial, stageLog,
                      failKind >>

\* scrape_shipping_companies after the fetch; main enters populate_clients
ScrapeShippingCompanies ==
    /\ pc = "parse"
    /\ cat = "companies"
    /\ companies' = ScrapeCompanies(content)
    /\ content' = None
    /\ cat' = "none"
    /\ client_ids' = <<>>
    /\ i' = 1
    /\ pc' = "clients"
    /\ stageLog' = Append(stageLog, "Clients")
    /\ UNCHANGED << conn, closes, committed, pending, seqv, role,
                      roleCommitted, txAborted, outcome, failedIn, ti,
                      truncTried, truncFailed, li, lookupRuns, requests,
                      sleeps, firstResp, ports, vessel_ids, shipment_ids,
                      container_count, status_ids, left, rng, cn, phaseLog,
                      opsAfterClose, opsIssued, initial, failKind >>

\* Mutant: populate_clients ends with db_conn.commit(), as populate_lookup_tables does.
PopulateClientsCommitting ==
    /\ pc = "clients"
    /\ IF i <= Len(companies)
       THEN /\ StoreOp
            /\ seqv' = [seqv EXCEPT !["client"] = @ + 1]
            /\ pending' = [pending EXCEPT !["client"] =
                              Append(@, [id |-> seqv["client"] + 1,
                                         company_name |-> companies[i]])]
            /\ client_ids' = Append(client_ids, seqv["client"] + 1)
            /\ i' = i + 1
            /\ pc' = pc
            /\ cat' = cat
            /\ stageLog' = stageLog
            /\ committed' = committed
            /\ roleCommitted' = roleCommitted
       ELSE /\ StoreOp
            /\ committed' = pending
            /\ roleCommitted' = role
            /\ seqv' = seqv
            /\ pending' = pending
            /\ client_ids' = client_ids
            /\ i' = 1
            /\ cat' = AfterClients.cat
            /\ pc' = AfterClients.pc
            /\ stageLog' = Append(stageLog, AfterClients.stage)
    /\ UNCHANGED << conn, closes, role, txAborted, outcome, failedIn, ti,
                      truncTried, truncFailed, li, lookupRuns, content,
                      requests, sleeps, firstResp, companies, ports,
                      vessel_ids, shipment_ids, container_count, status_ids,
                      left, rng, cn, phaseLog, initial, failKind >>

\* populate_clients: one INSERT per company, then main goes on to step 4
PopulateClients ==
    /\ pc = "clients"
    /\ IF i <= Len(companies)
       THEN /\ StoreOp
            /\ seqv' = [seqv EXCEPT !["client"] = @ + 1]
            /\ pending' = [pending EXCEPT !["client"] =
                              Append(@, [id |-> seqv["client"] + 1,
                                         company_name |-> companies[i]])]
            /\ client_ids' = Append(client_ids, seqv["client"] + 1)
            /\ i' = i + 1
            /\ pc' = pc
            /\ cat' = cat
            /\ stageLog' = stageLog
       ELSE /\ NoStoreOp
            /\ seqv' = seqv
            /\ pending' = pending
            /\ client_ids' = client_ids
            /\ i' = 1
            /\ cat' = AfterClients.cat
            /\ pc' = AfterClients.pc
            /\ stageLog' = Append(stageLog, AfterClients.stage)
    /\ UNCHANGED << conn, closes, committed, role, roleCommitted, txAborted,
                      outcome, failedIn, ti, truncTried, truncFailed, li,
                      lookupRuns, content, requests, sleeps, firstResp,
                      companies, ports, vessel_ids, shipment_ids,
                      container_count, status_ids, left, rng, cn, phaseLog,
                      initial, failKind >>

\* scrape_container_ports after the fetch; main enters populate_vessels
ScrapeContainerPorts ==
    /\ pc = "parse"
    /\ cat = "ports"
    /\ ports' = ScrapePorts(content)
    /\ content' = None
    /\ cat' = "none"
    /\ vessel_ids' = <<>>
    /\ i' = 1
    /\ pc' = "vessels"
    /\ stageLog' = Append(stageLog, "Vessels")
    /\ UNCHANGED << conn, closes, committed, pending, seqv, role,
                      roleCommitted, txAborted, outcome, failedIn, ti,
                      truncTried, truncFailed, li, lookupRuns, requests,
                      sleeps, firstResp, companies, client_ids, shipment_ids,
                      container_count, status_ids, left, rng, cn, phaseLog,
                      opsAfterClose, opsIssued, initial, failKind >>

\* populate_vessels: client_count * 3 INSERTs, then main enters populate_berths
PopulateVessels ==
    /\ pc = "vessels"
    /\ IF i <= Len(client_ids) * VesselsPerClient
       THEN /\ StoreOp
            /\ seqv' = [seqv EXCEPT !["vessel"] = @ + 1]
            /\ pending' = [pending EXCEPT !["vessel"] =
                              Append(@, [id |-> seqv["vessel"] + 1])]
            /\ vessel_ids' = Append(vessel_ids, seqv["vessel"] + 1)
            /\ i' = i + 1
            /\ pc' = pc
            /\ stageLog' = stageLog
       ELSE /\ NoStoreOp
            /\ seqv' = seqv
            /\ pending' = pending
            /\ vessel_ids' = vessel_ids
            /\ i' = 1
            /\ pc' = "berths_select"
            /\ stageLog' = Append(stageLog, "Berths")
    /\ UNCHANGED << conn, closes, committed, role, roleCommitted, txAborted,
                      outcome, failedIn, ti, truncTried, truncFailed, li,
                      lookupRuns, cat, content, requests, sleeps, firstResp,
                      companies, ports, client_ids, shipment_ids,
                      container_count, status_ids, left, rng, cn, phaseLog,
                      initial, failKind >>

\* SELECT name, id FROM the stage's lookup table, read into a dict
SelectIds ==
    /\ pc \in {"berths_select", "shipments_select", "containers_select"}
    /\ StoreOp
    /\ status_ids' = ReadIds(pending[StageOfSelect(pc).table])
    /\ i' = 1
    /\ left' = 0
    /\ shipment_ids' = IF pc = "shipments_select" THEN <<>> ELSE shipment_ids
    /\ container_count' = IF pc = "containers_select" THEN 0 ELSE container_count
    /\ pc' = StageOfSelect(pc).next
    /\ UNCHANGED << conn, closes, committed, pending, seqv, role,
                      roleCommitted, txAborted, outcome, failedIn, ti,
                      truncTried, truncFailed, li, lookupRuns, cat, content,
                      requests, sleeps, firstResp, companies, ports,
                      client_ids, vessel_ids, rng, cn, phaseLog, initial,
                      stageLog, failKind >>

\* populate_berths: the INSERT for berth i of range(1, 21)
PopulateBerths ==
    /\ pc = "berths"
    /\ IF i <= BerthCount
       THEN LET status == berth_status(i, vessel_ids)
                vessel_id == berth_vessel_id(i, vessel_ids)
            IN /\ StoreOp
               /\ seqv' = [seqv EXCEPT !["berth"] = @ + 1]
               /\ pending' = [pending EXCEPT !["berth"] =
                                 Append(@, [id |-> seqv["berth"] + 1,
                                            berth_number |-> BerthNumber(i),
                                            berth_status_id |-> status_ids[status],
                                            vessel_id |-> vessel_id])]
               /\ i' = i + 1
               /\ pc' = pc
               /\ stageLog' = stageLog
       ELSE /\ NoStoreOp
            /\ seqv' = seqv
            /\ pending' = pending
            /\ i' = 1
            /\ pc' = "shipments_select"
            /\ stageLog' = Append(stageLog, "Shipments")
    /\ UNCHANGED << conn, closes, committed, role, roleCommitted, txAborted,
                      outcome, failedIn, ti, truncTried, truncFailed, li,
                      lookupRuns, cat, content, requests, sleeps, firstResp,
                      companies, ports, client_ids, vessel_ids, shipment_ids,
                      container_count, status_ids, left, rng, cn, phaseLog,
                      initial, failKind >>

\* Mutant: populate_shipments draws from ports before it looks at the clients.
ShipmentsNextClientEager ==
    /\ pc = "shipments"
    /\ left = 0
    /\ IF SampleRaises(ports)
       THEN /\ Raise(pc)
            /\ failKind' = "program"
            /\ UNCHANGED << left, rng, stageLog >>
       ELSE /\ failedIn' = failedIn
            /\ failKind' = failKind
            /\ IF i <= Len(client_ids)
               THEN /\ left' = shipments_per_client(rng)
                    /\ rng' = NextRng(rng)
                    /\ pc' = pc
                    /\ stageLog' = stageLog
               ELSE /\ left' = 0
                    /\ rng' = rng
                    /\ pc' = "containers_select"
                    /\ stageLog' = Append(stageLog, "Containers")
    /\ UNCHANGED << conn, closes, committed, pending, seqv, role,
                      roleCommitted, txAborted, outcome, ti, truncTried,
                      truncFailed, li, lookupRuns, cat, content, requests,
                      sleeps, firstResp, companies, ports, client_ids,
                      vessel_ids, shipment_ids, container_count, status_ids,
                      i, cn, phaseLog, opsAfterClose, opsIssued, initial >>

\* populate_shipments: the next client and its random_int(2, 5), or the return
ShipmentsNextClient ==
    /\ pc = "shipments"
    /\ left = 0
    /\ IF i <= Len(client_ids)
       THEN /\ left' = shipments_per_client(rng)
            /\ rng' = NextRng(rng)
            /\ pc' = pc
            /\ stageLog' = stageLog
       ELSE /\ left' = 0
            /\ rng' = rng
            /\ pc' = "containers_select"
            /\ stageLog' = Append(stageLog, "Containers")
    /\ UNCHANGED << conn, closes, committed, pending, seqv, role,
                      roleCommitted, txAborted, outcome, failedIn, ti,
                      truncTried, truncFailed, li, lookupRuns, cat, content,
                      requests, sleeps, firstResp, companies, ports,
                      client_ids, vessel_ids, shipment_ids, container_count,
                      status_ids, i, cn, phaseLog, opsAfterClose, opsIssued,
                      initial, failKind >>

\* populate_shipments: one shipment of the current client
InsertShipment ==
    /\ pc = "shipments"
    /\ left > 0
    /\ IF SampleRaises(ports)
       THEN \* ValueError from random_elements
            /\ Raise(pc)
            /\ failKind' = "program"
            /\ UNCHANGED << opsAfterClose, opsIssued, seqv, pending, shipment_ids, rng, left, i >>
       ELSE LET pair == random_elements(rng, ports)
                r3 == NextRng(NextRng(rng))
                status == random_element(r3, status_options)
            IN /\ StoreOp
               /\ seqv' = [seqv EXCEPT !["shipment"] = @ + 1]
               /\ pending' = [pending EXCEPT !["shipment"] =
                                 Append(@, [id |-> seqv["shipment"] + 1,
                                            client_id |-> client_ids[i],
                                            shipment_status_id |-> status_ids[status],
                                            origin |-> pair[1],
                                            destination |-> pair[2]])]
               /\ shipment_ids' = Append(shipment_ids, seqv["shipment"] + 1)
               /\ rng' = NextRng(r3)
               /\ left' = left - 1
               /\ i' = IF left = 1 THEN i + 1 ELSE i
               /\ pc' = pc
               /\ failedIn' = failedIn
               /\ failKind' = failKind
    /\ UNCHANGED << conn, closes, committed, role, roleCommitted, txAborted,
                      outcome, ti, truncTried, truncFailed, li, lookupRuns,
                      cat, content, requests, sleeps, firstResp, companies,
                      ports, client_ids, vessel_ids, container_count,
                      status_ids, cn, phaseLog, initial, stageLog >>

\* populate_containers: the next shipment and its random_int(1, 4), or the return
ContainersNextShipment ==
    /\ pc = "containers"
    /\ left = 0
    /\ IF i <= Len(shipment_ids)
       THEN /\ left' = containers_per_shipment(rng)
            /\ rng' = NextRng(rng)
            /\ pc' = pc
            /\ stageLog' = stageLog
       ELSE /\ left' = 0
            /\ rng' = rng
            /\ pc' = "commit"
            /\ stageLog' = Append(stageLog, "Commit")
    /\ UNCHANGED << conn, closes, committed, pending, seqv, role,
                      roleCommitted, txAborted, outcome, failedIn, ti,
                      truncTried, truncFailed, li, lookupRuns, cat, content,
                      requests, sleeps, firstResp, companies, ports,
                      client_ids, vessel_ids, shipment_ids, container_count,
                      status_ids, i, cn, phaseLog, opsAfterClose, opsIssued,
                      initial, failKind >>

\* populate_containers: one container of the current shipment
InsertContainer ==
    /\ pc = "containers"
    /\ left > 0
    /\ LET container_type == random_element(rng, container_types)
           r2 == NextRng(rng)
           r3 == IF vessel_ids # <<>> THEN NextRng(r2) ELSE r2
           r4 == NextRng(r3)
           r5 == NextRng(r4)
           r6 == NextRng(r5)
           r7 == NextRng(r6)
           owner_code == << random_uppercase_letter(r3), random_uppercase_letter(r4),
                            random_uppercase_letter(r5) >>
       IN /\ StoreOp
          /\ seqv' = [seqv EXCEPT !["container"] = @ + 1]
          /\ pending' = [pending EXCEPT !["container"] =
                            Append(@, [id |-> seqv["container"] + 1,
                                       shipment_id |-> shipment_ids[i],
                                       vessel_id |-> assigned_vessel(r2, vessel_ids),
                                       container_type_id |-> status_ids[container_type],
                                       container_number |->
                                           generate_container_number(owner_code, random_number6(r6)),
                                       size |-> random_element(r7, sizes)])]
          /\ rng' = NextRng(r7)
    /\ container_count' = container_count + 1
    /\ left' = left - 1
    /\ i' = IF left = 1 THEN i + 1 ELSE i
    /\ UNCHANGED << pc, conn, closes, committed, role, roleCommitted,
                      txAborted, outcome, failedIn, ti, truncTried,
                      truncFailed, li, lookupRuns, cat, content, requests,
                      sleeps, firstResp, companies, ports, client_ids,
                      vessel_ids, shipment_ids, status_ids, cn, phaseLog,
                      initial, stageLog, failKind >>

\* conn.commit() of main
FinalCommit ==
    /\ pc = "commit"
    /\ StoreOp
    /\ committed' = pending
    /\ roleCommitted' = role
    /\ outcome' = "committed"
    /\ phaseLog' = Append(phaseLog, "Committed")
    /\ pc' = "finally"
    /\ UNCHANGED << conn, closes, pending, seqv, role, txAborted, failedIn,
                      ti, truncTried, truncFailed, li, lookupRuns, cat,
                      content, requests, sleeps, firstResp, companies, ports,
                      client_ids, vessel_ids, shipment_ids, container_count,
                      status_ids, i, left, rng, cn, initial, stageLog,
                      failKind >>

\* a store statement raises psycopg2.Error outside the try of the truncate loop
StoreError ==
    /\ pc \in FalliblePcs
    /\ ~txAborted
    /\ StoreOp
    /\ txAborted' = TRUE
    /\ failKind' = "store"
    /\ Raise(pc)
    /\ UNCHANGED << conn, closes, committed, pending, seqv, role,
                      roleCommitted, outcome, ti, truncTried, truncFailed,
                      li, lookupRuns, cat, content, requests, sleeps,
                      firstResp, companies, ports, client_ids, vessel_ids,
                      shipment_ids, container_count, status_ids, i, left,
                      rng, cn, phaseLog, initial, stageLog >>

\* Mutant: the except clause calls conn.commit() where it should roll back.
RollbackCommitting ==
    /\ pc = "except"
    /\ StoreOp
    /\ committed' = pending
    /\ roleCommitted' = role
    /\ txAborted' = FALSE
    /\ outcome' = "rolledback"
    /\ phaseLog' = Append(phaseLog, "RolledBack")
    /\ pc' = AfterRollback
    /\ UNCHANGED << conn, closes, pending, seqv, role, failedIn, ti,
                      truncTried, truncFailed, li, lookupRuns, cat, content,
                      requests, sleeps, firstResp, companies, ports,
                      client_ids, vessel_ids, shipment_ids, container_count,
                      status_ids, i, left, rng, cn, initial, stageLog,
                      failKind >>

\* except Exception: conn.rollback()
Rollback ==
    /\ pc = "except"
    /\ StoreOp
    /\ pending' = committed
    /\ role' = roleCommitted
    /\ txAborted' = FALSE
    /\ outcome' = "rolledback"
    /\ phaseLog' = Append(phaseLog, "RolledBack")
    /\ pc' = AfterRollback
    /\ UNCHANGED << conn, closes, committed, seqv, roleCommitted, failedIn,
                      ti, truncTried, truncFailed, li, lookupRuns, cat,
                      content, requests, sleeps, firstResp, companies, ports,
                      client_ids, vessel_ids, shipment_ids, container_count,
                      status_ids, i, left, rng, cn, initial, stageLog,
                      failKind >>

\* finally: conn.close()
Close ==
    /\ pc = "finally"
    /\ conn' = "closed"
    /\ closes' = closes + 1
    /\ pc' = "done"
    /\ UNCHANGED << committed, pending, seqv, role, roleCommitted, txAborted,
                      outcome, failedIn, ti, truncTried, truncFailed, li,
                      lookupRuns, cat, content, requests, sleeps, firstResp,
                      companies, ports, client_ids, vessel_ids, shipment_ids,
                      container_count, status_ids, i, left, rng, cn,
                      phaseLog, opsAfterClose, opsIssued, initial, stageLog,
                      failKind >>

Next ==
    \/ Connect \/ ConnectFails
    \/ SetReplica \/ TruncateTable \/ TruncateError \/ SetOrigin \/ CommitReset
    \/ LookupInsert \/ CommitLookup
    \/ GetWikipediaData \/ ScrapeShippingCompanies \/ PopulateClients
    \/ ScrapeContainerPorts \/ PopulateVessels
    \/ SelectIds \/ PopulateBerths
    \/ ShipmentsNextClient \/ InsertShipment
    \/ ContainersNextShipment \/ InsertContainer
    \/ FinalCommit \/ StoreError \/ Rollback \/ Close

Spec == Init /\ [][Next]_vars

(***************************************************************************)
(* Properties                                                              *)
(***************************************************************************)
Rows(db, t) == SeqToSet(db[t])

Ids(db, t) == {row.id : row \in Rows(db, t)}

Names(db, t) == {row.name : row \in Rows(db, t)}

IdOf(db, t, name) == (CHOOSE row \in Rows(db, t) : row.name = name).id

\* the resolve call of category c has returned its list to main
Resolved(c) == requests[c] > 0 /\ cat # c

ResolvedList(c) == IF c = "companies" THEN companies ELSE ports

Fallback(c) == IF c = "companies" THEN FallbackCompanies ELSE FallbackPorts

FailKinds == {"network", "timeout", "http_error", "rate_limited"}

FailedInContainers == failedIn \in {"containers_select", "containers"}

LookupsSeeded(db) ==
    /\ Len(db["ShipmentStatus"]) = 5
    /\ Len(db["ContainerType"]) = 4
    /\ Len(db["BerthStatus"]) = 3
    /\ Names(db, "ShipmentStatus") = SeqToSet(statuses)
    /\ Names(db, "ContainerType") = SeqToSet(container_types)
    /\ Names(db, "BerthStatus") = SeqToSet(berth_statuses)

C2_FallbackOnFailedFetch ==
    \A c \in Categories :
        (/\ Resolved(c)
         /\ \/ firstResp[c].kind \in FailKinds
            \/ /\ firstResp[c].kind = "ok"
               /\ firstResp[c].page.kind = "html"
               /\ firstResp[c].page.tables = <<>>)
            => /\ ResolvedList(c) = Fallback(c)
               /\ ResolvedList(c) # <<>>

\* C3: a first rate-limited response is followed by one back-off delay and
\* exactly one retry: the resolve call issues two requests.
C3_RetryAfterRateLimit ==
    \A c \in Categories :
        (Resolved(c) /\ firstResp[c].kind = "rate_limited")
            => requests[c] = 2 /\ sleeps[c] = 1

\* the Berths stage has returned and its rows are in the transaction
BerthsDone ==
    \/ pc \in {"shipments_select", "shipments", "containers_select",
               "containers", "commit"}
    \/ outcome = "committed"

\* C4: after the Berths stage there are exactly 20 berths B001..B020,
\* min(20, n) of them OCCUPIED, the others AVAILABLE without a vessel; an
\* OCCUPIED berth references a generated vessel and no vessel is referenced
\* by two berths.
C4_Berths ==
    BerthsDone =>
        LET b == pending["berth"]
            n == Len(pending["vessel"])
            occupied == {k \in 1..Len(b) :
                            b[k].berth_status_id = IdOf(pending, "BerthStatus", "OCCUPIED")}
        IN /\ Len(b) = 20
           /\ \A k \in 1..Len(b) :
                 b[k].berth_number =
                     << "B", "0", DigitChars[(k \div 10) + 1], DigitChars[(k % 10) + 1] >>
           /\ Cardinality(occupied) = Min(20, n)
           /\ \A k \in occupied : b[k].vessel_id \in Ids(pending, "vessel")
           /\ \A k \in (1..Len(b)) \ occupied :
                 /\ b[k].berth_status_id = IdOf(pending, "BerthStatus", "AVAILABLE")
                 /\ b[k].vessel_id = NoVessel
           /\ \A k, m \in occupied : k # m => b[k].vessel_id # b[m].vessel_id

\* more vessels were generated than there are berths
C4_Witness == BerthsDone /\ Len(pending["vessel"]) > 20 /\ Len(pending["berth"]) = 20

ShipmentsOf(db, client) == {s \in Rows(db, "shipment") : s.client_id = client}

ContainersOf(db, shipment) == {k \in Rows(db, "container") : k.shipment_id = shipment}

\* C5: a committed run with c resolved company names holds c clients, 3*c
\* vessels, 20 berths, 2 to 5 shipments for every client (2*c..5*c in all)
\* and 1 to 4 containers for every shipment (s..4*s in all).
C5_CommittedCounts ==
    outcome = "committed" =>
        LET c == Len(companies)
            s == Len(committed["shipment"])
            k == Len(committed["container"])
        IN /\ Len(committed["client"]) = c
           /\ Len(committed["vessel"]) = 3 * c
           /\ Len(committed["berth"]) = 20
           /\ 2 * c <= s /\ s <= 5 * c
           /\ \A cl \in Ids(committed, "client") :
                 /\ Cardinality(ShipmentsOf(committed, cl)) >= 2
                 /\ Cardinality(ShipmentsOf(committed, cl)) <= 5
           /\ s <= k /\ k <= 4 * s
           /\ \A sh \in Ids(committed, "shipment") :
                 /\ Cardinality(ContainersOf(committed, sh)) >= 1
                 /\ Cardinality(ContainersOf(committed, sh)) <= 4

\* a committed run with the six fallback companies
C5_Witness ==
    /\ outcome = "committed"
    /\ Len(companies) = 6
    /\ Len(committed["container"]) > Len(committed["shipment"])

\* C6: every shipment the Shipments stage inserts has an origin different
\* from its destination, whatever port list was resolved.
C6_OriginDiffersFromDestination ==
    \A s \in Rows(pending, "shipment") :
        s.id \in SeqToSet(shipment_ids) => s.origin # s.destination

\* the reset is committed: the transaction holds rows of this run only
ResetDone == "SeedingLookup" \in SeqToSet(phaseLog)

\* C9: every reference of an inserted row points to a row of an earlier
\* stage of the run: shipment -> client, container -> shipment, container
\* -> vessel or none, occupied berth -> vessel, status and type ids ->
\* seeded lookup rows.
C9_ReferencesPointBack ==
    ResetDone =>
        /\ \A s \in Rows(pending, "shipment") :
              /\ s.client_id \in SeqToSet(client_ids)
              /\ s.client_id \in Ids(pending, "client")
              /\ s.shipment_status_id \in Ids(pending, "ShipmentStatus")
        /\ \A k \in Rows(pending, "container") :
              /\ k.shipment_id \in SeqToSet(shipment_ids)
              /\ k.shipment_id \in Ids(pending, "shipment")
              /\ k.vessel_id = NoVessel \/ k.vessel_id \in Ids(pending, "vessel")
              /\ k.container_type_id \in Ids(pending, "ContainerType")
        /\ \A b \in Rows(pending, "berth") :
              /\ b.berth_status_id \in Ids(pending, "BerthStatus")
              /\ b.vessel_id # NoVessel => b.vessel_id \in Ids(pending, "vessel")

\* containers were inserted in a store whose sequences did not start at 0
C9_Witness ==
    /\ pc = "containers"
    /\ Len(pending["container"]) > 2
    /\ \E k \in Rows(pending, "container") : k.vessel_id > Len(pending["vessel"])

PhaseRank(p) ==
    CASE p = "Idle" -> 0
      [] p = "Truncating" -> 1
      [] p = "SeedingLookup" -> 2
      [] p = "SeedingEntities" -> 3
      [] p \in {"Committed", "RolledBack"} -> 4

Terminal == {"Committed", "RolledBack"}

\* C10: a run that opened the connection goes through Idle, Truncating,
\* Seeding(lookup), Seeding(entities) in this order, never backwards, ends
\* in exactly one of Committed and RolledBack, closes the connection exactly
\* once, after that commit or rollback, and issues nothing after the close.
C10_RunLifecycle ==
    /\ \A k \in 1..(Len(phaseLog) - 1) :
          /\ PhaseRank(phaseLog[k]) < PhaseRank(phaseLog[k + 1])
          /\ phaseLog[k + 1] \notin Terminal
                => PhaseRank(phaseLog[k + 1]) = PhaseRank(phaseLog[k]) + 1
          /\ phaseLog[k + 1] = "Committed" => phaseLog[k] = "SeedingEntities"
    /\ closes <= 1
    /\ opsAfterClose = 0
    /\ conn = "closed" => closes = 1 /\ phaseLog[Len(phaseLog)] \in Terminal
    /\ (pc = "done" /\ conn # "none")
          => /\ conn = "closed"
             /\ closes = 1
             /\ Cardinality({k \in 1..Len(phaseLog) : phaseLog[k] \in Terminal}) = 1
             /\ outcome \in {"committed", "rolledback"}
             /\ (outcome = "committed") = (phaseLog[Len(phaseLog)] = "Committed")

\* a run that raised in a seeding stage ended rolled back and closed
C10_Witness ==
    /\ pc = "done"
    /\ outcome = "rolledback"
    /\ conn = "closed"
    /\ failedIn = "shipments"
    /\ phaseLog = << "Idle", "Truncating", "SeedingLookup", "SeedingEntities", "RolledBack" >>

(***************************************************************************)
(* generate_container_number on its own: the owner code and the serial     *)
(* number it draws are the inputs.                                         *)
(***************************************************************************)
\* the first letter ranges over the alphabet, the others over OwnerLetters
OwnerLetters == {"A", "K", "U", "Z"}

Serials == {100000 + ((k * 179999) % 900000) : k \in 0..MaxSerialIdx} \cup {999999}

InitCN ==
    /\ InitLocals
    /\ pc = "cn_call"
    /\ committed = EmptyStore
    /\ pending = EmptyStore
    /\ initial = EmptyStore
    /\ seqv = [t \in TableSet |-> 0]
    /\ rng = 0
    /\ cn \in {[owner |-> << a, b, c >>, serial |-> n, result |-> <<>>] :
                  a \in SeqToSet(Alphabet), b \in OwnerLetters, c \in OwnerLetters,
                  n \in Serials}

\* generate_container_number() with the drawn owner code and serial number
GenerateContainerNumber ==
    /\ pc = "cn_call"
    /\ cn' = [cn EXCEPT !.result = generate_container_number(cn.owner, cn.serial)]
    /\ pc' = "cn_done"
    /\ UNCHANGED << conn, closes, committed, pending, seqv, role, roleCommitted,
                    txAborted, outcome, failedIn, ti, truncTried, truncFailed,
                    li, lookupRuns, cat, content, requests, sleeps, firstResp,
                    companies, ports, client_ids, vessel_ids, shipment_ids,
                    container_count, status_ids, i, left, rng, phaseLog,
                    opsAfterClose, opsIssued, initial, stageLog, failKind >>

NextCN == GenerateContainerNumber

SpecCN == InitCN /\ [][NextCN]_vars

IsLetter(ch) == ch \in SeqToSet(Alphabet)

IsDigit(ch) == ch \in SeqToSet(DigitChars)

\* the value the check-digit law gives a character: A=10 .. Z=35, digits
\* their face value
LawValue(ch) ==
    IF IsLetter(ch) THEN 9 + IndexOf(Alphabet, ch) ELSE IndexOf(DigitChars, ch) - 1

RECURSIVE LawSum(_, _)
LawSum(s, n) == IF n = 0 THEN 0 ELSE LawSum(s, n - 1) + LawValue(s[n]) * (2 ^ (n - 1))

\* C7: a generated container number has 11 characters, 3 uppercase
\* letters, U, 6 digits and a check digit equal to
\* ((sum of value(char i) * 2^i, i = 0..9) mod 11) mod 10.
C7_ContainerNumber ==
    pc = "cn_done" =>
        LET s == cn.result
        IN /\ Len(s) = 11
           /\ \A k \in 1..3 : IsLetter(s[k])
           /\ s[4] = "U"
           /\ \A k \in 5..11 : IsDigit(s[k])
           /\ SubSeq(s, 1, 3) = cn.owner
           /\ LawValue(s[11]) = (LawSum(s, 10) % 11) % 10

\* a number whose sum is 10 modulo 11: the check digit wraps to 0
C7_Witness ==
    /\ pc = "cn_done"
    /\ LawSum(cn.result, 10) % 11 = 10
    /\ cn.result[11] = "0"

(***************************************************************************)
(* populate_lookup_tables invoked again without a reset in between, on     *)
(* lookup tables that hold any part of the fixed value sets.               *)
(***************************************************************************)
KeepNames(names, S) == SelectSeq(names, LAMBDA n : n \in S)

InitLookup ==
    /\ InitLocals
    /\ pc = "lookup"
    /\ \E s1 \in SUBSET SeqToSet(statuses), s2 \in SUBSET SeqToSet(container_types),
          s3 \in SUBSET SeqToSet(berth_statuses) :
          committed = [t \in TableSet |->
                          CASE t = "ShipmentStatus" -> LookupRows(KeepNames(statuses, s1))
                            [] t = "ContainerType" -> LookupRows(KeepNames(container_types, s2))
                            [] t = "BerthStatus" -> LookupRows(KeepNames(berth_statuses, s3))
                            [] OTHER -> <<>>]
    /\ pending = committed
    /\ initial = committed
    /\ seqv = [t \in TableSet |-> Len(committed[t])]
    /\ rng = 0
    /\ cn = NoCn

\* populate_lookup_tables(conn) is called once more
InvokeLookupAgain ==
    /\ pc = "fetch"
    /\ cat = "companies"
    /\ lookupRuns < MaxLookupRuns
    /\ li' = 1
    /\ cat' = "none"
    /\ pc' = "lookup"
    /\ UNCHANGED << conn, closes, committed, pending, seqv, role, roleCommitted,
                    txAborted, outcome, failedIn, ti, truncTried, truncFailed,
                    lookupRuns, content, requests, sleeps, firstResp,
                    companies, ports, client_ids, vessel_ids, shipment_ids,
                    container_count, status_ids, i, left, rng, cn, phaseLog,
                    opsAfterClose, opsIssued, initial, stageLog, failKind >>

NextLookup == LookupInsert \/ CommitLookup \/ InvokeLookupAgain

SpecLookup == InitLookup /\ [][NextLookup]_vars

NoDuplicateNames(db, t) == Cardinality(Names(db, t)) = Len(db[t])

\* C8: after any number of invocations of lookup seeding the three lookup
\* tables hold exactly the fixed value sets, without a duplicate name (5, 4
\* and 3 rows); an invocation after the first adds no row.
C8_LookupSeedingIdempotent ==
    /\ (lookupRuns >= 1 /\ pc = "fetch")
          => /\ LookupsSeeded(pending)
             /\ LookupsSeeded(committed)
             /\ \A t \in LookupTables : NoDuplicateNames(committed, t)
    /\ (lookupRuns >= 1 /\ pc \in {"lookup", "commit_lookup"})
          => pending = committed

\* lookup seeding has run twice in a row on tables that were empty
C8_Witness ==
    /\ lookupRuns = 2
    /\ pc = "fetch"
    /\ seqv["ShipmentStatus"] = 10
    /\ Len(committed["ShipmentStatus"]) = 5

(***************************************************************************)
(* Claims about failures, ordering and atomicity of the run                *)
(***************************************************************************)
\* no request was issued for either category
NoFetch == \A c \in Categories : requests[c] = 0 /\ sleeps[c] = 0

\* C11: when psycopg2.connect fails, the run ends having issued nothing: no
\* statement, commit or rollback reaches the store, no table is truncated,
\* no name is fetched, and the store holds what it held before the run.
C11_ConnectFailureDoesNothing ==
    conn = "none" =>
        /\ opsIssued = 0
        /\ truncTried = {}
        /\ NoFetch
        /\ outcome = "none"
        /\ closes = 0
        /\ committed = initial /\ pending = initial
        /\ seqv = [t \in TableSet |-> Len(initial[t])]
        /\ pc \in {"start", "done"}

\* the run ended on a failed connection, with a store that had rows
C11_Witness ==
    /\ pc = "done" /\ conn = "none"
    /\ initial = PriorStore /\ committed = PriorStore
    /\ opsIssued = 0

\* the steps of the try block of main(), in the order of the code
StageOrder ==
    << "Reset", "Lookup", "ResolveCompanies", "Clients", "ResolvePorts",
       "Vessels", "Berths", "Shipments", "Containers", "Commit" >>

IsPrefix(s, t) == Len(s) <= Len(t) /\ \A k \in 1..Len(s) : s[k] = t[k]

\* the step of main() that a position of the run belongs to
StageAt(p) ==
    CASE p \in {"set_replica", "truncate", "set_origin", "commit_reset"} -> "Reset"
      [] p \in {"lookup", "commit_lookup"} -> "Lookup"
      [] p \in {"fetch", "parse"} ->
            IF cat = "companies" THEN "ResolveCompanies" ELSE "ResolvePorts"
      [] p = "clients" -> "Clients"
      [] p = "vessels" -> "Vessels"
      [] p \in {"berths_select", "berths"} -> "Berths"
      [] p \in {"shipments_select", "shipments"} -> "Shipments"
      [] p \in {"containers_select", "containers"} -> "Containers"
      [] p = "commit" -> "Commit"

Started(stage) == stage \in SeqToSet(stageLog)

\* what each step has left behind once the next one was entered
EarlierStagesFinished ==
    /\ Started("Lookup") => truncTried = TableSet /\ roleCommitted = "origin"
    /\ Started("ResolveCompanies") => LookupsSeeded(committed)
    /\ Started("Clients") => Resolved("companies")
    /\ Started("ResolvePorts") => Len(client_ids) = Len(companies)
    /\ Started("Vessels") => Resolved("ports")
    /\ Started("Berths") => Len(vessel_ids) = 3 * Len(client_ids)
    /\ Started("Shipments") => outcome = "rolledback" \/ Len(pending["berth"]) = 20
    /\ Started("Containers") => Len(shipment_ids) >= 2 * Len(client_ids)
    /\ Started("Commit") => container_count >= Len(shipment_ids)

\* C12: the steps of a run are entered in the fixed order Reset, Lookup
\* seeding, resolve companies, Clients, resolve ports, Vessels, Berths,
\* Shipments, Containers, final Commit; a step is entered only when every
\* earlier one has finished; the step in which a failure is raised is the
\* last one entered; the final commit is issued only after Containers has
\* finished with no failure.
C12_StagesInFixedOrder ==
    /\ IsPrefix(stageLog, StageOrder)
    /\ EarlierStagesFinished
    /\ pc \notin {"start", "except", "finally", "done"} =>
           stageLog # <<>> /\ stageLog[Len(stageLog)] = StageAt(pc)
    /\ failedIn # "none" =>
           stageLog # <<>> /\ stageLog[Len(stageLog)] = StageAt(failedIn)
    /\ outcome = "committed" => stageLog = StageOrder /\ failedIn = "none"

\* a run that failed while inserting berths has ended: seven steps were
\* entered and no later one
C12_Witness ==
    /\ pc = "done"
    /\ failedIn = "berths"
    /\ stageLog = SubSeq(StageOrder, 1, 7)
    /\ Len(client_ids) > 0

EntityTablesEmpty(db) == \A t \in EntityTables : db[t] = <<>>

\* the committed entity tables hold all that the five entity stages wrote
EntityTablesComplete ==
    /\ outcome = "committed"
    /\ \A t \in EntityTables : committed[t] = pending[t]
    /\ Len(committed["client"]) = Len(companies)
    /\ Len(committed["vessel"]) = 3 * Len(companies)
    /\ Len(committed["berth"]) = 20
    /\ Len(committed["shipment"]) = Len(shipment_ids)
    /\ Len(committed["container"]) = container_count

\* C13: from the commit of the reset on, the committed contents of client,
\* vessel, berth, shipment and container are either all empty or the complete
\* output of the five entity stages of this run; in no state are the rows of
\* some entity stages committed and those of others not, whichever stage fails.
C13_EntityStagesAtomic ==
    ResetDone => EntityTablesEmpty(committed) \/ EntityTablesComplete

\* a run that wrote clients, vessels and berths failed in Shipments and has
\* ended with none of these rows committed
C13_Witness ==
    /\ pc = "done"
    /\ ResetDone
    /\ failedIn \in {"shipments_select", "shipments"}
    /\ Len(vessel_ids) > 0
    /\ EntityTablesEmpty(committed)

\* position of table t in the list of truncate_tables
TablePos(t) == CHOOSE k \in 1..Len(Tables) : Tables[k] = t

\* C14: when the TRUNCATE of one of the eight tables fails with a store
\* error, the failure is skipped: every table after it in the list is still
\* attempted, the reset step does not raise, and the run goes on to lookup
\* seeding instead of ending rolled back.
C14_TruncationFailureSkipped ==
    truncFailed # {} =>
        /\ pc # "truncate" =>
               \A t \in truncFailed :
                   \A k \in TablePos(t)..Len(Tables) : Tables[k] \in truncTried
        /\ failedIn # "set_origin"
        /\ pc = "done" => Started("Lookup") /\ outcome # "rolledback"

\* positions of the run whose next statement is an INSERT
InsertPcs == {"lookup", "clients", "vessels", "berths", "shipments", "containers"}

\* rows written by this run are in the open transaction or committed
WroteRows == \E t \in TableSet : seqv[t] > Len(initial[t])

\* C15: referential-integrity checks are suspended (session_replication_role
\* = 'replica') only while the truncation step runs; on every path, also
\* those where truncations fail, the role is back to 'origin' before the
\* first insert into any table, and no insert is issued while it is 'replica'.
C15_ChecksSuspendedOnlyWhileTruncating ==
    /\ role = "replica" =>
           \/ pc \in {"truncate", "set_origin"}
           \/ pc = "except" /\ failedIn = "set_origin"
    /\ role = "replica" => ~WroteRows
    /\ pc \in InsertPcs => role = "origin"
    /\ pc \in {"finally", "done"} => role = "origin"

\* the first insert is about to be issued after a reset that suspended the
\* checks and truncated a populated store
C15_Witness ==
    /\ pc = "lookup" /\ li = 1
    /\ truncTried = TableSet
    /\ initial = PriorStore
    /\ role = "origin"
    /\ opsIssued = 11

\* C16: name resolution terminates: whatever the endpoint answers, also when
\* it always answers rate-limited, one resolve call issues at most 2 requests
\* (the original and at most 1 retry) and at most 1 back-off delay, and then
\* returns a list to main.
C16_ResolveIsBounded ==
    \A c \in Categories :
        /\ requests[c] <= 2
        /\ sleeps[c] <= 1
        /\ sleeps[c] < requests[c] \/ requests[c] = 0
        \* a call that has issued its requests is no longer fetching
        /\ pc = "fetch" /\ cat = c => requests[c] < 2
        /\ pc = "parse" /\ cat = c => requests[c] >= 1
        \* after its request the call is at its last step or has returned
        /\ requests[c] >= 1 /\ cat = c => pc = "parse"

\* both resolve calls have returned to main although the endpoint answered
\* rate-limited to each
C16_Witness ==
    /\ \A c \in Categories :
           Resolved(c) /\ firstResp[c].status = 429 /\ requests[c] = 1
    /\ pc = "vessels"

\* C17: company names are deduplicated before clients are created: for every
\* resolved company list, also one from a page that lists a name in two rows,
\* the Clients stage inserts at most one client per distinct company name and
\* never more than 15 clients.
C17_OneClientPerCompanyName ==
    ResetDone =>
        LET clients == pending["client"]
        IN /\ Len(clients) <= 15
           /\ \A a, b \in 1..Len(clients) :
                  clients[a].company_name = clients[b].company_name => a = b

\* port resolution returned fewer than 2 names and a client was inserted
TooFewPorts ==
    /\ Resolved("ports")
    /\ Len(ports) < 2
    /\ Len(client_ids) >= 1

\* C18: when port resolution yields fewer than 2 port names and at least one
\* client was inserted, the Shipments stage fails on drawing the origin and
\* destination of its first shipment: no shipment is inserted, the Containers
\* stage and the final commit are never reached, the run ends rolled back and
\* the five entity tables hold zero committed rows.
C18_TooFewPortsFailsShipments ==
    TooFewPorts =>
        /\ shipment_ids = <<>>
        /\ ~Started("Containers") /\ ~Started("Commit")
        /\ outcome # "committed"
        /\ EntityTablesEmpty(committed)
        /\ pc = "shipments" /\ left > 0 => SampleRaises(ports)
        /\ failKind = "program" => failedIn = "shipments"
        /\ pc = "done" =>
               /\ outcome = "rolledback"
               /\ failedIn # "none"
               /\ EntityTablesEmpty(pending)

\* a run with one resolved port and clients has ended on the ValueError of
\* the first shipment
C18_Witness ==
    /\ pc = "done"
    /\ TooFewPorts /\ Len(ports) = 1
    /\ failKind = "program" /\ failedIn = "shipments"
    /\ outcome = "rolledback"

\* company resolution returned the empty list
NoCompanies == Resolved("companies") /\ companies = <<>>

\* 20 berths, all AVAILABLE and without a vessel, and no other entity row
OnlyAvailableBerths(db) ==
    /\ db["client"] = <<>> /\ db["vessel"] = <<>>
    /\ db["shipment"] = <<>> /\ db["container"] = <<>>
    /\ Len(db["berth"]) = 20
    /\ \A k \in 1..20 :
           /\ db["berth"][k].berth_status_id = IdOf(db, "BerthStatus", "AVAILABLE")
           /\ db["berth"][k].vessel_id = NoVessel

\* C19: when company resolution yields zero names the run does not fail on
\* that account, whatever port resolution returns, the empty list included:
\* unless a store statement raises, it ends committed with 0 clients, 0
\* vessels, 0 shipments, 0 containers and exactly 20 berths, all AVAILABLE
\* and without a vessel reference.
C19_NoCompaniesStillCommits ==
    NoCompanies =>
        /\ failKind # "program"
        /\ client_ids = <<>> /\ vessel_ids = <<>>
        /\ shipment_ids = <<>> /\ container_count = 0
        /\ pc = "done" /\ failKind = "none" =>
               outcome = "committed" /\ OnlyAvailableBerths(committed)
        /\ outcome = "committed" => OnlyAvailableBerths(committed)

\* a run with no company and no port has ended committed
C19_Witness ==
    /\ pc = "done"
    /\ NoCompanies
    /\ Resolved("ports") /\ ports = <<>>
    /\ outcome = "committed"
    /\ Len(committed["berth"]) = 20

\* C20: the reset is committed on its own and a later rollback does not undo
\* it: once truncate_tables has completed, a failure in any later stage
\* leaves the entity rows of before the run deleted; the store does not
\* return to its contents of before the run.
C20_ResetSurvivesRollback ==
    ResetDone /\ outcome = "rolledback" =>
        /\ EntityTablesEmpty(committed)
        /\ EntityTablesEmpty(pending)
        /\ \A t \in EntityTables : initial[t] # <<>> => committed[t] # initial[t]

\* a run over a populated store failed while inserting clients and ended
\* rolled back, with the rows of before the run gone
C20_Witness ==
    /\ pc = "done"
    /\ initial = PriorStore
    /\ ResetDone /\ outcome = "rolledback"
    /\ failedIn = "clients"
    /\ committed["vessel"] = <<>>

====
